---- MODULE Spec2Model ----
(***************************************************************************)
(* Expression trees of LR6_TRPO.cpp: Number, BinaryOperation, FunctionCall *)
(* and Variable nodes on a heap, their evaluate(), the two Transformers    *)
(* (CopySyntaxTree, FoldConstants) and the destructors.                    *)
(*                                                                         *)
(* The heap is a sequence of node records; the address of a node is its    *)
(* index, NULL is 0.  operator new always returns the next index, so an    *)
(* address is never handed out twice and every delete is observable in the *)
(* node's freed counter.                                                   *)
(*                                                                         *)
(* double is modelled by a reduced-width binary floating-point format with *)
(* the IEEE 754 special values: a sign, a significand of Precision bits,   *)
(* exponents 0..MaxExp, subnormals, signed zeros, two infinities, one NaN. *)
(* Results are rounded to nearest, ties to even, and overflow to infinity. *)
(* assert() is modelled as compiled in (the source does not define         *)
(* NDEBUG): a failing assert aborts the process.                           *)
(***************************************************************************)
EXTENDS Integers, Sequences, FiniteSets, TLC

\* ---------------------------------------------------------------- bounds
\* The modelled double format: bits of significand, largest exponent.
Precision == 2
MaxExp == 4
\* Nodes the caller may construct one by one before transforming.
MaxNodes == 3
\* Transformer applications in one run.
MaxTransforms == 2
\* An operator code outside the enumeration, passed as the int op.
OtherOp == 37

\* ------------------------------------------------------------- constants
PLUS == 43
MINUS == 45
DIV == 47
MUL == 42
NULL == 0

\* ------------------------------------------------------------- doubles
Fin(s, m) == [c |-> "fin", s |-> s, m |-> m]
Inf(s) == [c |-> "inf", s |-> s, m |-> 0]
NaN == [c |-> "nan", s |-> 0, m |-> 0]
PosZero == Fin(0, 0)

RECURSIVE Pow2(_)
Pow2(e) == IF e = 0 THEN 1 ELSE 2 * Pow2(e - 1)

\* The significands of the format: Precision bits, the top bit set for a
\* normal number and clear for a subnormal one.
Normal == Pow2(Precision - 1)..(Pow2(Precision) - 1)
Subnormal == 0..(Pow2(Precision - 1) - 1)

\* The finite magnitudes: significand * 2^exponent.
Mags == Subnormal \cup {m * Pow2(e) : m \in Normal, e \in 0..MaxExp}

\* The magnitude one binade above the largest finite one: a result that
\* rounds to it has overflowed.
Top == Pow2(Precision - 1) * Pow2(MaxExp + 1)

\* Whether the significand of grid point g is even.
EvenSig(g) ==
  \/ g \in Subnormal /\ g % 2 = 0
  \/ \E e \in 0..(MaxExp + 1), m \in Normal : g = m * Pow2(e) /\ m % 2 = 0

\* Every value of the modelled double type.
Doubles == {Fin(s, m) : s \in {0, 1}, m \in Mags} \cup {Inf(0), Inf(1), NaN}

\* A double literal written in the source, e.g. 32.0.
Lit(k) == IF k < 0 THEN Fin(1, 0 - k) ELSE Fin(0, k)

Xor(a, b) == IF a = b THEN 0 ELSE 1

\* The magnitude n/d (n >= 0, d > 0) rounded to the nearest grid point,
\* ties to the even significand; Top stands for overflow.
RoundHalfEven(n, d) ==
  IF n >= Top * d THEN Top
  ELSE LET grid == Mags \cup {Top}
           lo == CHOOSE g \in grid : g * d <= n /\ \A k \in grid : k * d <= n => k <= g
           hi == CHOOSE g \in grid : g > lo /\ \A k \in grid : k > lo => k >= g
       IN IF lo * d = n THEN lo
          ELSE IF 2 * n < (lo + hi) * d THEN lo
          ELSE IF 2 * n > (lo + hi) * d THEN hi
          ELSE IF EvenSig(lo) THEN lo ELSE hi

\* The finite result of sign s and exact magnitude n/d, rounded; a
\* magnitude that rounds past the largest finite one gives infinity.
Pack(s, n, d) ==
  LET m == RoundHalfEven(n, d)
  IN IF m = Top THEN Inf(s) ELSE Fin(s, m)

\* The signed integer a finite value stands for.
Signed(a) == IF a.s = 1 THEN 0 - a.m ELSE a.m

\* left + right
DAdd(a, b) ==
  IF a.c = "nan" \/ b.c = "nan" THEN NaN
  ELSE IF a.c = "inf" /\ b.c = "inf" THEN (IF a.s = b.s THEN a ELSE NaN)
  ELSE IF a.c = "inf" THEN a
  ELSE IF b.c = "inf" THEN b
  ELSE LET k == Signed(a) + Signed(b)
       IN IF k = 0 THEN (IF a.s = 1 /\ b.s = 1 THEN Fin(1, 0) ELSE Fin(0, 0))
          ELSE IF k < 0 THEN Pack(1, 0 - k, 1) ELSE Pack(0, k, 1)

DNeg(a) == IF a.c = "nan" THEN NaN ELSE [a EXCEPT !.s = 1 - a.s]

\* left - right
DSub(a, b) == DAdd(a, DNeg(b))

\* left * right
DMul(a, b) ==
  IF a.c = "nan" \/ b.c = "nan" THEN NaN
  ELSE IF a.c = "inf" \/ b.c = "inf"
       THEN (IF (a.c = "fin" /\ a.m = 0) \/ (b.c = "fin" /\ b.m = 0)
             THEN NaN ELSE Inf(Xor(a.s, b.s)))
  ELSE Pack(Xor(a.s, b.s), a.m * b.m, 1)

\* left / right: no zero check, IEEE results for x/0 and 0/0
DDiv(a, b) ==
  IF a.c = "nan" \/ b.c = "nan" THEN NaN
  ELSE IF a.c = "inf" THEN (IF b.c = "inf" THEN NaN ELSE Inf(Xor(a.s, b.s)))
  ELSE IF b.c = "inf" THEN Fin(Xor(a.s, b.s), 0)
  ELSE IF b.m = 0 THEN (IF a.m = 0 THEN NaN ELSE Inf(Xor(a.s, b.s)))
  ELSE Pack(Xor(a.s, b.s), a.m, b.m)

\* sqrt(x), correctly rounded: the grid point nearest the root, found by
\* comparing squares (a tie goes to the even significand).  A negative
\* argument gives NaN, sqrt(-0) = -0.
DSqrt(a) ==
  IF a.c = "nan" THEN NaN
  ELSE IF a.c = "fin" /\ a.m = 0 THEN a
  ELSE IF a.s = 1 THEN NaN
  ELSE IF a.c = "inf" THEN a
  ELSE LET lo == CHOOSE g \in Mags : g * g <= a.m /\ \A k \in Mags : k * k <= a.m => k <= g
           hi == CHOOSE g \in Mags : g > lo /\ \A k \in Mags : k > lo => k >= g
       IN IF lo * lo = a.m THEN Fin(0, lo)
          ELSE IF 4 * a.m < (lo + hi) * (lo + hi) THEN Fin(0, lo)
          ELSE IF 4 * a.m > (lo + hi) * (lo + hi) THEN Fin(0, hi)
          ELSE IF EvenSig(lo) THEN Fin(0, lo) ELSE Fin(0, hi)

\* fabs(x)
DFabs(a) == IF a.c = "nan" THEN NaN ELSE [a EXCEPT !.s = 0]

\* ---------------------------------------------------------------- nodes
\* One record shape for the four structs; a field a struct does not have
\* holds a fixed filler.  freed counts the deletes applied to the node.
Node(kind, value, op, name, left, right, arg) ==
  [kind |-> kind, value |-> value, op |-> op, name |-> name,
   left |-> left, right |-> right, arg |-> arg, freed |-> 0]

\* What a constructor call or a transform returns: the heap after it, the
\* new node's address, and the assertion that failed, if one did.
Outcome(h, r, err) == [h |-> h, r |-> r, err |-> err]

\* Number(double value)
NumberCtor(h, value) ==
  Outcome(Append(h, Node("Number", value, 0, "", NULL, NULL, NULL)),
          Len(h) + 1, "none")

\* Variable(std::string const& name)
VariableCtor(h, name) ==
  Outcome(Append(h, Node("Variable", PosZero, 0, name, NULL, NULL, NULL)),
          Len(h) + 1, "none")

\* BinaryOperation(left, op, right): assert(left_ && right_); op is any int
BinaryOperationCtor(h, left, op, right) ==
  IF left = NULL \/ right = NULL
  THEN Outcome(h, NULL, "InvalidOperand")
  ELSE Outcome(Append(h, Node("BinaryOperation", PosZero, op, "", left, right, NULL)),
               Len(h) + 1, "none")

\* FunctionCall(name, arg) with the two asserts in the other order
FunctionCallCtor_NameFirst(h, name, arg) ==
  IF ~(name = "sqrt" \/ name = "abs")
  THEN Outcome(h, NULL, "UnsupportedFunction")
  ELSE IF arg = NULL
  THEN Outcome(h, NULL, "InvalidOperand")
  ELSE Outcome(Append(h, Node("FunctionCall", PosZero, 0, name, NULL, NULL, arg)),
               Len(h) + 1, "none")

\* FunctionCall(name, arg): assert(arg_); assert(name_ == "sqrt" || name_ == "abs")
FunctionCallCtor(h, name, arg) ==
  IF arg = NULL
  THEN Outcome(h, NULL, "InvalidOperand")
  ELSE IF ~(name = "sqrt" \/ name = "abs")
  THEN Outcome(h, NULL, "UnsupportedFunction")
  ELSE Outcome(Append(h, Node("FunctionCall", PosZero, 0, name, NULL, NULL, arg)),
               Len(h) + 1, "none")

\* ----------------------------------------------------------- destructors
RECURSIVE Delete(_, _)
\* delete p: nothing for a null pointer; otherwise the destructor of the
\* node's struct deletes the children it owns, then the node is released.
\* Deleting a node that is already released is counted and goes no further.
Delete(h, p) ==
  IF p = NULL THEN h
  ELSE IF h[p].freed > 0 THEN [h EXCEPT ![p].freed = @ + 1]
  ELSE IF h[p].kind = "BinaryOperation"
       THEN LET h1 == Delete(h, h[p].left)
                h2 == Delete(h1, h[p].right)
            IN [h2 EXCEPT ![p].freed = @ + 1]
  ELSE IF h[p].kind = "FunctionCall"
       THEN LET h1 == Delete(h, h[p].arg)
            IN [h1 EXCEPT ![p].freed = @ + 1]
  ELSE [h EXCEPT ![p].freed = @ + 1]

\* ------------------------------------------------------------- evaluate
\* The switch of BinaryOperation::evaluate with '*' computing a sum
BinaryOperation_apply_MulAsAdd(op, left, right) ==
  IF op = PLUS THEN {DAdd(left, right)}
  ELSE IF op = MINUS THEN {DSub(left, right)}
  ELSE IF op = DIV THEN {DDiv(left, right)}
  ELSE IF op = MUL THEN {DAdd(left, right)}
  ELSE Doubles

\* The switch of BinaryOperation::evaluate: the values it can return.  It
\* has no default and nothing follows it, so for any other op control
\* flows off the end of a value-returning function: undefined behaviour,
\* the caller reads an arbitrary double.
BinaryOperation_apply(op, left, right) ==
  IF op = PLUS THEN {DAdd(left, right)}
  ELSE IF op = MINUS THEN {DSub(left, right)}
  ELSE IF op = DIV THEN {DDiv(left, right)}
  ELSE IF op = MUL THEN {DMul(left, right)}
  ELSE Doubles

\* FunctionCall::evaluate on an evaluated argument
FunctionCall_apply(name, v) == IF name = "sqrt" THEN DSqrt(v) ELSE DFabs(v)

RECURSIVE evaluate(_, _)
\* e->evaluate(): the set of values the call can return (one value unless
\* the evaluation runs into undefined behaviour: an op outside the switch,
\* or a node that has been released).
evaluate(h, e) ==
  IF h[e].freed > 0 THEN Doubles
  ELSE IF h[e].kind = "Number" THEN {h[e].value}
  ELSE IF h[e].kind = "Variable" THEN {PosZero}
  ELSE IF h[e].kind = "BinaryOperation"
       THEN UNION {BinaryOperation_apply(h[e].op, l, r) :
                     l \in evaluate(h, h[e].left), r \in evaluate(h, h[e].right)}
  ELSE {FunctionCall_apply(h[e].name, v) : v \in evaluate(h, h[e].arg)}

\* ------------------------------------------------------- CopySyntaxTree
RECURSIVE CST_transform(_, _)

\* CopySyntaxTree::transformNumber
CST_transformNumber(h, number) == {NumberCtor(h, h[number].value)}

\* CopySyntaxTree::transformBinaryOperation.  The two transform calls are
\* arguments of one constructor call, so the compiler chooses which runs
\* first; both orders are outcomes.
CST_transformBinaryOperation(h, binop) ==
  LET leftFirst ==
        UNION {IF oL.err # "none" THEN {oL}
               ELSE UNION {IF oR.err # "none" THEN {oR}
                           ELSE {BinaryOperationCtor(oR.h, oL.r, h[binop].op, oR.r)} :
                           oR \in CST_transform(oL.h, h[binop].right)} :
               oL \in CST_transform(h, h[binop].left)}
      rightFirst ==
        UNION {IF oR.err # "none" THEN {oR}
               ELSE UNION {IF oL.err # "none" THEN {oL}
                           ELSE {BinaryOperationCtor(oL.h, oL.r, h[binop].op, oR.r)} :
                           oL \in CST_transform(oR.h, h[binop].left)} :
               oR \in CST_transform(h, h[binop].right)}
  IN leftFirst \cup rightFirst

\* CopySyntaxTree::transformFunctionCall
CST_transformFunctionCall(h, fcall) ==
  UNION {IF oA.err # "none" THEN {oA}
         ELSE {FunctionCallCtor(oA.h, h[fcall].name, oA.r)} :
         oA \in CST_transform(h, h[fcall].arg)}

\* CopySyntaxTree::transformVariable
CST_transformVariable(h, var) == {VariableCtor(h, h[var].name)}

\* e->transform(&CST): the virtual transform of e's struct calls the
\* transformer's method for that struct.
CST_transform(h, e) ==
  IF h[e].kind = "Number" THEN CST_transformNumber(h, e)
  ELSE IF h[e].kind = "BinaryOperation" THEN CST_transformBinaryOperation(h, e)
  ELSE IF h[e].kind = "FunctionCall" THEN CST_transformFunctionCall(h, e)
  ELSE CST_transformVariable(h, e)

\* -------------------------------------------------------- FoldConstants
RECURSIVE FC_transform(_, _)

\* FoldConstants::transformNumber
FC_transformNumber(h, number) == {NumberCtor(h, h[number].value)}

\* FoldConstants::transformVariable
FC_transformVariable(h, var) == {VariableCtor(h, h[var].name)}

\* dynamic_cast<Number*>(p) is non-null
IsNumber(h, p) == h[p].kind = "Number"

\* The branch of transformBinaryOperation taken when L or R is a Number
FC_foldBinaryOperation_Or(h, L, Op, R) ==
  LET newBinop == BinaryOperationCtor(h, L, Op, R)
  IN IF newBinop.err # "none" THEN {newBinop}
     ELSE IF IsNumber(h, L) \/ IsNumber(h, R)
     THEN {LET foldConst == NumberCtor(newBinop.h, v)
           IN Outcome(Delete(foldConst.h, newBinop.r), foldConst.r, "none") :
           v \in evaluate(newBinop.h, newBinop.r)}
     ELSE {newBinop}

\* transformBinaryOperation without its delete newBinop
FC_foldBinaryOperation_NoDelete(h, L, Op, R) ==
  LET newBinop == BinaryOperationCtor(h, L, Op, R)
  IN IF newBinop.err # "none" THEN {newBinop}
     ELSE IF IsNumber(h, L) /\ IsNumber(h, R)
     THEN {NumberCtor(newBinop.h, v) : v \in evaluate(newBinop.h, newBinop.r)}
     ELSE {newBinop}

\* FoldConstants::transformBinaryOperation after L and R are built: the
\* two casts, the intermediate node, and the fold when both are Numbers.
FC_foldBinaryOperation(h, L, Op, R) ==
  LET newBinop == BinaryOperationCtor(h, L, Op, R)
  IN IF newBinop.err # "none" THEN {newBinop}
     ELSE IF IsNumber(h, L) /\ IsNumber(h, R)
     THEN {LET foldConst == NumberCtor(newBinop.h, v)
           IN Outcome(Delete(foldConst.h, newBinop.r), foldConst.r, "none") :
           v \in evaluate(newBinop.h, newBinop.r)}
     ELSE {newBinop}

\* FoldConstants::transformBinaryOperation: L, then R, then the rest
FC_transformBinaryOperation(h, binop) ==
  UNION {IF oL.err # "none" THEN {oL}
         ELSE UNION {IF oR.err # "none" THEN {oR}
                     ELSE FC_foldBinaryOperation(oR.h, oL.r, h[binop].op, oR.r) :
                     oR \in FC_transform(oL.h, h[binop].right)} :
         oL \in FC_transform(h, h[binop].left)}

\* transformFunctionCall deleting the node it was given, not newFcall
FC_transformFunctionCall_DeleteInput(h, fcall) ==
  UNION {IF oA.err # "none" THEN {oA}
         ELSE LET newFcall == FunctionCallCtor(oA.h, h[fcall].name, oA.r)
              IN IF newFcall.err # "none" THEN {newFcall}
                 ELSE IF IsNumber(oA.h, oA.r)
                 THEN {LET foldConst == NumberCtor(newFcall.h, v)
                       IN Outcome(Delete(foldConst.h, fcall), foldConst.r, "none") :
                       v \in evaluate(newFcall.h, newFcall.r)}
                 ELSE {newFcall} :
         oA \in FC_transform(h, h[fcall].arg)}

\* FoldConstants::transformFunctionCall
FC_transformFunctionCall(h, fcall) ==
  UNION {IF oA.err # "none" THEN {oA}
         ELSE LET newFcall == FunctionCallCtor(oA.h, h[fcall].name, oA.r)
              IN IF newFcall.err # "none" THEN {newFcall}
                 ELSE IF IsNumber(oA.h, oA.r)
                 THEN {LET foldConst == NumberCtor(newFcall.h, v)
                       IN Outcome(Delete(foldConst.h, newFcall.r), foldConst.r, "none") :
                       v \in evaluate(newFcall.h, newFcall.r)}
                 ELSE {newFcall} :
         oA \in FC_transform(h, h[fcall].arg)}

\* e->transform(&FC)
FC_transform(h, e) ==
  IF h[e].kind = "Number" THEN FC_transformNumber(h, e)
  ELSE IF h[e].kind = "BinaryOperation" THEN FC_transformBinaryOperation(h, e)
  ELSE IF h[e].kind = "FunctionCall" THEN FC_transformFunctionCall(h, e)
  ELSE FC_transformVariable(h, e)

\* e->transform(tr) for the transformer named tr
transform(h, e, tr) == IF tr = "CopySyntaxTree" THEN CST_transform(h, e) ELSE FC_transform(h, e)

\* ---------------------------------------------------------------- state
VARIABLES
  heap,    \* every node allocated so far, by address
  phase,   \* "run", or "aborted" once an assert has failed
  err,     \* the assertion that failed ("none", "InvalidOperand", "UnsupportedFunction") and the struct whose constructor holds it
  hist,    \* the transform calls made: transformer, input root, result root, heap size before and after
  evalOf   \* the last evaluate() call: its node and the value it returned

vars == <<heap, phase, err, hist, evalOf>>

\* Inputs of the caller.
Literals == {Lit(0), Lit(0 - 4), Lit(3)}
VarNames == {"var"}
OpInputs == {PLUS, MINUS, DIV, MUL, OtherOp}
NameInputs == {"sqrt", "abs", "log"}
Transformers == {"CopySyntaxTree", "FoldConstants"}

NoEval == [node |-> NULL, value |-> PosZero]
NoError == [kind |-> "none", struct |-> ""]

Addrs(h) == 1..Len(h)

\* The children a node owns.
Children(h, p) ==
  IF h[p].kind = "BinaryOperation" THEN {h[p].left, h[p].right}
  ELSE IF h[p].kind = "FunctionCall" THEN {h[p].arg}
  ELSE {}

Parents(h, a) == {p \in Addrs(h) : a \in Children(h, p)}

\* An expression the caller holds and owns: a live node no node owns.
IsRoot(h, a) ==
  /\ a \in Addrs(h)
  /\ h[a].freed = 0
  /\ \A p \in Addrs(h) : a \notin Children(h, p)

Roots(h) == {a \in Addrs(h) : IsRoot(h, a)}

Init ==
  /\ heap = <<>>
  /\ phase = "run"
  /\ err = NoError
  /\ hist = <<>>
  /\ evalOf = NoEval

\* A constructor call of the caller: the node is on the heap, or the
\* assert has aborted the process and no node exists.
Constructed(o, struct) ==
  /\ heap' = o.h
  /\ err' = IF o.err = "none" THEN NoError ELSE [kind |-> o.err, struct |-> struct]
  /\ phase' = IF o.err = "none" THEN "run" ELSE "aborted"
  /\ evalOf' = NoEval
  /\ UNCHANGED hist

\* new Number(value)
NewNumber(value) ==
  /\ phase = "run"
  /\ hist = <<>>
  /\ Len(heap) < MaxNodes
  /\ Constructed(NumberCtor(heap, value), "Number")

\* new Variable(name)
NewVariable(name) ==
  /\ phase = "run"
  /\ hist = <<>>
  /\ Len(heap) < MaxNodes
  /\ Constructed(VariableCtor(heap, name), "Variable")

\* new BinaryOperation(left, op, right): each operand is an expression the
\* caller owns, or a null pointer; the new node takes the operands over.
NewBinaryOperation(left, op, right) ==
  /\ phase = "run"
  /\ hist = <<>>
  /\ Len(heap) < MaxNodes
  /\ left = NULL \/ IsRoot(heap, left)
  /\ right = NULL \/ IsRoot(heap, right)
  /\ left # NULL => left # right
  /\ Constructed(BinaryOperationCtor(heap, left, op, right), "BinaryOperation")

\* new FunctionCall(name, arg)
NewFunctionCall(name, arg) ==
  /\ phase = "run"
  /\ hist = <<>>
  /\ Len(heap) < MaxNodes
  /\ arg = NULL \/ IsRoot(heap, arg)
  /\ Constructed(FunctionCallCtor(heap, name, arg), "FunctionCall")

\* The bookkeeping of a transform call that returned outcome o.
Transformed(e, tr, o) ==
  /\ heap' = o.h
  /\ err' = IF o.err = "none" THEN NoError ELSE [kind |-> o.err, struct |-> tr]
  /\ phase' = IF o.err = "none" THEN "run" ELSE "aborted"
  /\ hist' = IF o.err = "none"
             THEN Append(hist, [tr |-> tr, src |-> e, res |-> o.r,
                                base |-> Len(heap), top |-> Len(o.h)])
             ELSE hist
  /\ evalOf' = NoEval

\* e->transform(&tr) on an expression the caller owns
Transform(e, tr) ==
  /\ phase = "run"
  /\ Len(hist) < MaxTransforms
  /\ IF hist = <<>> THEN Roots(heap) = {e} ELSE e = hist[Len(hist)].res
  /\ \A i \in 1..Len(hist) : heap[hist[i].src].freed = 0 /\ heap[hist[i].res].freed = 0
  /\ \E o \in transform(heap, e, tr) : Transformed(e, tr, o)

\* e->evaluate() on an expression the caller has built
Evaluate(e) ==
  /\ phase = "run"
  /\ hist = <<>>
  /\ IsRoot(heap, e)
  /\ \E v \in evaluate(heap, e) : evalOf' = [node |-> e, value |-> v]
  /\ UNCHANGED <<heap, phase, err, hist>>

\* delete e on the input or the result of the caller's last transform call
DeleteRoot(e) ==
  /\ phase = "run"
  /\ hist # <<>>
  /\ e \in {hist[Len(hist)].src, hist[Len(hist)].res}
  /\ IsRoot(heap, e)
  /\ heap' = Delete(heap, e)
  /\ evalOf' = NoEval
  /\ UNCHANGED <<phase, err, hist>>

\* The tree main builds in its second block: abs(2 * sqrt(32 - 16)).
MainTreeNumber ==
  LET n32 == NumberCtor(<<>>, Lit(32))
      n16 == NumberCtor(n32.h, Lit(16))
      minus == BinaryOperationCtor(n16.h, n32.r, MINUS, n16.r)
      callSqrt == FunctionCallCtor(minus.h, "sqrt", minus.r)
      n2 == NumberCtor(callSqrt.h, Lit(2))
      mult == BinaryOperationCtor(n2.h, n2.r, MUL, callSqrt.r)
  IN FunctionCallCtor(mult.h, "abs", mult.r)

\* The tree main builds in its last block: abs(var * sqrt(32 - 16)).
MainTreeVariable ==
  LET n32 == NumberCtor(<<>>, Lit(32))
      n16 == NumberCtor(n32.h, Lit(16))
      minus == BinaryOperationCtor(n16.h, n32.r, MINUS, n16.r)
      callSqrt == FunctionCallCtor(minus.h, "sqrt", minus.r)
      var == VariableCtor(callSqrt.h, "var")
      mult == BinaryOperationCtor(var.h, var.r, MUL, callSqrt.r)
  IN FunctionCallCtor(mult.h, "abs", mult.r)

\* main, second block: the seven constructor calls.  The evaluate() call
\* that follows them is Evaluate.
Main_BuildAbsMulNumber ==
  /\ phase = "run"
  /\ heap = <<>>
  /\ heap' = MainTreeNumber.h
  /\ evalOf' = NoEval
  /\ UNCHANGED <<phase, err, hist>>

\* main, last block: the seven constructor calls.  The transform(&FC) call
\* that follows them is Transform; the two printExpr calls write to
\* std::cout and change no node.
Main_BuildAbsMulVariable ==
  /\ phase = "run"
  /\ heap = <<>>
  /\ heap' = MainTreeVariable.h
  /\ evalOf' = NoEval
  /\ UNCHANGED <<phase, err, hist>>

\* The quantified inputs are drawn only where the operation is possible.
Next ==
  \/ \E v \in Literals : NewNumber(v)
  \/ \E name \in VarNames : NewVariable(name)
  \/ /\ hist = <<>> /\ Len(heap) < MaxNodes
     /\ \E left \in Addrs(heap) \cup {NULL}, right \in Addrs(heap) \cup {NULL}, op \in OpInputs :
          NewBinaryOperation(left, op, right)
  \/ /\ hist = <<>> /\ Len(heap) < MaxNodes
     /\ \E arg \in Addrs(heap) \cup {NULL}, name \in NameInputs : NewFunctionCall(name, arg)
  \/ /\ Len(hist) < MaxTransforms
     /\ \E e \in Addrs(heap), tr \in Transformers : Transform(e, tr)
  \/ /\ hist = <<>>
     /\ \E e \in Addrs(heap) : Evaluate(e)
  \/ /\ hist # <<>>
     /\ \E e \in Addrs(heap) : DeleteRoot(e)
  \/ Main_BuildAbsMulNumber
  \/ Main_BuildAbsMulVariable

Spec == Init /\ [][Next]_vars

\* ------------------------------------------------------------- notions
RECURSIVE Reach(_, _)
\* The nodes of the tree rooted at a.
Reach(h, a) == {a} \cup UNION {Reach(h, k) : k \in Children(h, a)}

RECURSIVE Term(_, _)
\* The tree rooted at a without its addresses: kind, payload and the
\* subtrees in order.
Term(h, a) ==
  [kind |-> h[a].kind, value |-> h[a].value, op |-> h[a].op, name |-> h[a].name,
   kids |-> IF h[a].kind = "BinaryOperation" THEN <<Term(h, h[a].left), Term(h, h[a].right)>>
            ELSE IF h[a].kind = "FunctionCall" THEN <<Term(h, h[a].arg)>>
            ELSE <<>>]

TNumber(v) == [kind |-> "Number", value |-> v, op |-> 0, name |-> "", kids |-> <<>>]
TVariable(n) == [kind |-> "Variable", value |-> PosZero, op |-> 0, name |-> n, kids |-> <<>>]
TBinary(l, op, r) == [kind |-> "BinaryOperation", value |-> PosZero, op |-> op, name |-> "", kids |-> <<l, r>>]
TCall(n, a) == [kind |-> "FunctionCall", value |-> PosZero, op |-> 0, name |-> n, kids |-> <<a>>]

\* abs(2 * sqrt(32 - 16)) and abs(var * sqrt(32 - 16))
Sqrt32Minus16 == TCall("sqrt", TBinary(TNumber(Lit(32)), MINUS, TNumber(Lit(16))))
TermAbsMulNumber == TCall("abs", TBinary(TNumber(Lit(2)), MUL, Sqrt32Minus16))
TermAbsMulVariable == TCall("abs", TBinary(TVariable("var"), MUL, Sqrt32Minus16))

\* Whether the tree rooted at a holds a Variable.
HasVariable(h, a) == \E k \in Reach(h, a) : h[k].kind = "Variable"

\* The transform calls of a transformer whose input and result the caller
\* still holds.
Calls(tr) ==
  {i \in 1..Len(hist) : /\ hist[i].tr = tr
                        /\ heap[hist[i].src].freed = 0
                        /\ heap[hist[i].res].freed = 0}

\* Two evaluate() calls that cannot return different values.
SameValue(h, a, b) == \A v \in evaluate(h, a), w \in evaluate(h, b) : v = w

EnumOps == {PLUS, MINUS, DIV, MUL}

\* Whether every BinaryOperation of the tree rooted at a carries one of the
\* four operators of the enumeration.
OnlyEnumOps(h, a) ==
  \A k \in Reach(h, a) : h[k].kind = "BinaryOperation" => h[k].op \in EnumOps

\* ---------------------------------------------------------------- claims

\* C1: folding a tree without any Variable returns a single Number node,
\* with no children, whose value is what evaluate() returns on the tree.
C1_FoldOfConstantTree ==
  \A i \in Calls("FoldConstants") :
    ~HasVariable(heap, hist[i].src) =>
      /\ heap[hist[i].res].kind = "Number"
      /\ Children(heap, hist[i].res) = {}
      /\ evaluate(heap, hist[i].src) = {heap[hist[i].res].value}

\* C2: the tree FoldConstants returns evaluates to the same value as its
\* input, with or without Variables.
C2_FoldPreservesValue ==
  \A i \in Calls("FoldConstants") : SameValue(heap, hist[i].src, hist[i].res)

RECURSIVE KeptAcrossVariable(_, _, _)
\* Node n of the input, if a Variable is at or beneath it, is matched at
\* node m of the result by a node of the same kind and tag, and so on
\* down every path to a Variable.
KeptAcrossVariable(h, n, m) ==
  HasVariable(h, n) =>
    /\ m # NULL
    /\ h[m].kind = h[n].kind
    /\ h[n].kind = "Variable" => h[m].name = h[n].name
    /\ h[n].kind = "FunctionCall" =>
         /\ h[m].name = h[n].name
         /\ KeptAcrossVariable(h, h[n].arg, h[m].arg)
    /\ h[n].kind = "BinaryOperation" =>
         /\ h[m].op = h[n].op
         /\ KeptAcrossVariable(h, h[n].left, h[m].left)
         /\ KeptAcrossVariable(h, h[n].right, h[m].right)

\* C3: folding never folds across a Variable: every node at or above a
\* Variable is kept with its kind and tag, a tree with a Variable never
\* folds to a single Number, and abs(var*sqrt(32-16)) folds to exactly
\* abs(var*4).
C3_NeverFoldsAcrossVariable ==
  \A i \in Calls("FoldConstants") :
    /\ KeptAcrossVariable(heap, hist[i].src, hist[i].res)
    /\ HasVariable(heap, hist[i].src) => heap[hist[i].res].kind # "Number"
    /\ Term(heap, hist[i].src) = TermAbsMulVariable =>
         Term(heap, hist[i].res) =
           TCall("abs", TBinary(TVariable("var"), MUL, TNumber(Lit(4))))

\* C3 witness: main's tree abs(var*sqrt(32-16)) has been folded.
C3_Witness ==
  \E i \in Calls("FoldConstants") : Term(heap, hist[i].src) = TermAbsMulVariable

\* C4: CopySyntaxTree returns a tree structurally identical to its input,
\* made only of nodes allocated by the copy and sharing none with the
\* input, whose evaluate() equals the input's.
C4_CopyIsIdenticalFreshAndEqual ==
  \A i \in Calls("CopySyntaxTree") :
    /\ Term(heap, hist[i].res) = Term(heap, hist[i].src)
    /\ Reach(heap, hist[i].res) \subseteq (hist[i].base + 1)..hist[i].top
    /\ Reach(heap, hist[i].res) \cap Reach(heap, hist[i].src) = {}
    /\ SameValue(heap, hist[i].src, hist[i].res)

\* C5: a transform leaves every node of its input allocated and with the
\* kind, payload and children it had before the call.
C5_InputUntouched ==
  [][Len(hist') > Len(hist) =>
       \A a \in Reach(heap, hist'[Len(hist')].src) : heap'[a] = heap[a]]_vars

\* C5 witness: a fold has built and deleted an intermediate node, and the
\* input's nodes are all allocated.
C5_Witness ==
  \E i \in Calls("FoldConstants") :
    /\ \E a \in (hist[i].base + 1)..hist[i].top : heap[a].freed > 0
    /\ \A a \in Reach(heap, hist[i].src) : heap[a].freed = 0

\* C6: folding is idempotent: fold(fold(t)) is structurally identical to
\* fold(t) and evaluates identically to it.
C6_FoldIdempotent ==
  \A i \in Calls("FoldConstants"), j \in Calls("FoldConstants") :
    hist[j].src = hist[i].res =>
      /\ Term(heap, hist[j].res) = Term(heap, hist[i].res)
      /\ SameValue(heap, hist[i].res, hist[j].res)

\* A constructor call that failed with e: the process is aborted and the
\* heap holds no new node.
FailedWith(e) == err'.kind = e /\ phase' = "aborted" /\ heap' = heap

\* C7 as amended: a BinaryOperation with a null left or right operand
\* fails with InvalidOperand; a FunctionCall with a null argument fails
\* with InvalidOperand whatever its name; a FunctionCall with an argument
\* and a name other than "sqrt" and "abs" fails with UnsupportedFunction;
\* a failed construction produces no node.
C7_ConstructionValidation ==
  [][/\ \A left \in Addrs(heap) \cup {NULL}, right \in Addrs(heap) \cup {NULL}, op \in OpInputs :
          NewBinaryOperation(left, op, right) /\ (left = NULL \/ right = NULL)
            => FailedWith("InvalidOperand")
     /\ \A arg \in Addrs(heap) \cup {NULL}, name \in NameInputs :
          NewFunctionCall(name, arg) =>
            /\ arg = NULL => FailedWith("InvalidOperand")
            /\ arg # NULL /\ name \notin {"sqrt", "abs"} => FailedWith("UnsupportedFunction")]_vars

\* C7 as stated: every FunctionCall with a name other than "sqrt" and
\* "abs" fails with UnsupportedFunction, every FunctionCall with a null
\* argument fails with InvalidOperand.
C7_Original ==
  [][/\ \A left \in Addrs(heap) \cup {NULL}, right \in Addrs(heap) \cup {NULL}, op \in OpInputs :
          NewBinaryOperation(left, op, right) /\ (left = NULL \/ right = NULL)
            => FailedWith("InvalidOperand")
     /\ \A arg \in Addrs(heap) \cup {NULL}, name \in NameInputs :
          NewFunctionCall(name, arg) =>
            /\ arg = NULL => FailedWith("InvalidOperand")
            /\ name \notin {"sqrt", "abs"} => FailedWith("UnsupportedFunction")]_vars

\* C7 witness: a FunctionCall construction has failed on its name, after
\* nodes had been built.
C7_Witness == phase = "aborted" /\ err.kind = "UnsupportedFunction" /\ Len(heap) > 0

\* C8: every node the constructors accepted can be evaluated and
\* transformed without error; every BinaryOperation carries one of the
\* four operators, so its evaluate() reaches a case of the switch and
\* returns one value.
C8_ErrorsOnlyAtConstruction ==
  /\ \A a \in Addrs(heap) : heap[a].kind = "BinaryOperation" => heap[a].op \in EnumOps
  /\ \A e \in Roots(heap) :
       /\ Cardinality(evaluate(heap, e)) = 1
       /\ \A tr \in Transformers : \A o \in transform(heap, e, tr) : o.err = "none"

\* The evaluate() call on abs(2*sqrt(32-16)) has returned.
EvaluatedAbsMulNumber ==
  evalOf.node # NULL /\ Term(heap, evalOf.node) = TermAbsMulNumber

\* C9 as amended: evaluate() on abs(2*sqrt(32-16)) yields 8.0.
C9_EvaluatesTo8 == EvaluatedAbsMulNumber => evalOf.value = Lit(8)

\* C9 as stated: evaluate() on abs(2*sqrt(32-16)) yields 16.0.
C9_Original == EvaluatedAbsMulNumber => evalOf.value = Lit(16)

\* C9 witness: main's second block has run and evaluate() has returned.
C9_Witness == EvaluatedAbsMulNumber /\ evalOf.value \in Doubles

\* C10: of the nodes a fold call allocated, those in the returned tree
\* have exactly one parent (the root none), lie in no other tree and are
\* released exactly when the caller deletes the root, once; every other
\* one was released exactly once before the call returned; none is
\* released twice.
C10_FoldMemoryDiscipline ==
  \A i \in 1..Len(hist) :
    hist[i].tr = "FoldConstants" =>
      LET res == hist[i].res
          new == (hist[i].base + 1)..hist[i].top
      IN /\ Reach(heap, res) \subseteq new
         /\ Parents(heap, res) = {}
         /\ \A a \in new :
              IF a \in Reach(heap, res)
              THEN /\ heap[a].freed = heap[res].freed
                   /\ heap[a].freed <= 1
                   /\ a # res => Cardinality(Parents(heap, a)) = 1
              ELSE heap[a].freed = 1

\* C10 witness: a fold has deleted an intermediate node, returned a tree
\* of several nodes, and the caller has deleted that tree.
C10_Witness ==
  \E i \in 1..Len(hist) :
    /\ hist[i].tr = "FoldConstants"
    /\ heap[hist[i].res].freed = 1
    /\ Cardinality(Reach(heap, hist[i].res)) > 1
    /\ \E a \in (hist[i].base + 1)..hist[i].top : a \notin Reach(heap, hist[i].res)

\* ------------------------------------------- the four-operator fragment
\* What C1, C2, C4 and C6 say, on the trees whose BinaryOperations all
\* carry PLUS, MINUS, DIV or MUL: there evaluate() never leaves the switch.

\* C1 on trees of the four operators
C1_OnEnumOps ==
  \A i \in Calls("FoldConstants") :
    OnlyEnumOps(heap, hist[i].src) /\ ~HasVariable(heap, hist[i].src) =>
      /\ heap[hist[i].res].kind = "Number"
      /\ Children(heap, hist[i].res) = {}
      /\ evaluate(heap, hist[i].src) = {heap[hist[i].res].value}

\* C2 on trees of the four operators
C2_OnEnumOps ==
  \A i \in Calls("FoldConstants") :
    OnlyEnumOps(heap, hist[i].src) => SameValue(heap, hist[i].src, hist[i].res)

\* C4 on trees of the four operators; the structural part on every tree
C4_OnEnumOps ==
  \A i \in Calls("CopySyntaxTree") :
    /\ Term(heap, hist[i].res) = Term(heap, hist[i].src)
    /\ Reach(heap, hist[i].res) \subseteq (hist[i].base + 1)..hist[i].top
    /\ Reach(heap, hist[i].res) \cap Reach(heap, hist[i].src) = {}
    /\ OnlyEnumOps(heap, hist[i].src) => SameValue(heap, hist[i].src, hist[i].res)

\* C6 on trees of the four operators; the structural part on every tree
C6_OnEnumOps ==
  \A i \in Calls("FoldConstants"), j \in Calls("FoldConstants") :
    hist[j].src = hist[i].res =>
      /\ Term(heap, hist[j].res) = Term(heap, hist[i].res)
      /\ OnlyEnumOps(heap, hist[i].res) => SameValue(heap, hist[i].res, hist[j].res)

====
